---- MODULE Spec2Model ----
(* Verification model of the RaaS admin dashboard client:                  *)
(*   - composite-key derivation of a product (product-table.vue)           *)
(*   - filter -> query-parameter reconciliation (product-table.vue,        *)
(*     raas.api.ts)                                                         *)
(*   - the axios wrapper with its 401 handling (use-axios.ts)              *)
(*   - the manual refresh cooldown machine (product-table.vue)             *)
(*   - the create/update/cancel mutation cascade (raas.api.ts)             *)
(* Each part has its own specification over its own variables; the other   *)
(* variables stay at their initial values.                                  *)
EXTENDS Integers, Sequences, FiniteSets, TLC

VARIABLES
    \* ---- composite key (product-table.vue, compositeKey) ----
    rowPair,                  \* two Product rows handed to compositeKey
    keyPair,                  \* their composite keys, <<>> before the call
    \* ---- query parameters (product-table.vue, raas.api.ts) ----
    filters,                  \* props.filters of the product table
    pagination,               \* pagination ref: current, pageSize, total
    sentParams,               \* params of the last GET /product-progress
    listRequests,             \* GET /product-progress sent by the last step
    freshKeys,                \* query keys whose cached data is not stale
    \* ---- axios wrapper (use-axios.ts) ----
    token,                    \* authStore.token ("" when there is none)
    globalRouter,             \* TRUE when setGlobalRouter stored a router
    inFlight,                 \* requests sent and not yet answered
    location,                 \* the path the browser shows
    navigations,              \* navigations made by the last handler
    outcome,                  \* what the last interceptor returned
    \* ---- manual refresh (product-table.vue) ----
    dataAge,                  \* Date.now() - last_updated_at, in seconds
    tsluValue,                \* cached value of computed timeSinceLastUpdate
    tsluDirty,                \* its dependency changed since it was computed
    hasTriggeredUpdate,
    isUpdating,               \* isPending of useTriggerDataUpdate
    updateCooldownRemaining,
    updateCooldownTimer,      \* TRUE while the setInterval handle is set
    cooldownIntervals,        \* setInterval timers not yet cleared
    triggerInFlight,          \* manual POST /progress/update not yet answered
    cooldownFinished,         \* a countdown has run down to zero
    toast,                    \* notification raised by the last handler
    event,                    \* the last handler that ran
    \* ---- mutation cascade (raas.api.ts) ----
    mutations,                \* one record per create/update/cancel call
    invalidated,              \* query keys invalidated by the last step
    \* ---- rows, selection and form (product-table.vue) ----
    tableData,                \* productProgressData.items, the rendered page
    selectedRowKeys,          \* Set of the _key of the checked rows
    modalOpen,
    isEditing,
    formData,
    formOrigin,               \* <<row>> while the form holds handleEdit(row)
                              \* untouched, <<>> otherwise
    calls,                    \* mutate() calls not yet settled
    issued,                   \* mutate() calls made by the last handler
    tableToast                \* notification raised by the last handler

keyVars     == <<rowPair, keyPair>>
paramVars   == <<filters, pagination, sentParams, listRequests, freshKeys>>
axiosVars   == <<token, globalRouter, inFlight, location, navigations,
                 outcome>>
refreshVars == <<dataAge, tsluValue, tsluDirty, hasTriggeredUpdate,
                 isUpdating, updateCooldownRemaining, updateCooldownTimer,
                 cooldownIntervals, triggerInFlight, cooldownFinished, toast,
                 event>>
mutVars     == <<mutations>>
cacheVars   == <<invalidated>>
tableVars   == <<tableData, selectedRowKeys, modalOpen, isEditing, formData,
                 formOrigin, calls, issued, tableToast>>
vars        == <<keyVars, paramVars, axiosVars, refreshVars, mutVars,
                 cacheVars, tableVars>>

(***************************************************************************)
(* Composite key                                                           *)
(***************************************************************************)

\* Values an identity field takes in the checked rows: the empty string, a
\* plain value, and a value made of the delimiter character.
IdStrings == {"", "a", "|"}

IdentityFields == {"amazon_profile_name", "hanna_org_name", "asin",
                   "category_name", "raas_plan", "start_date"}

\* ProductCompositeKey of raas.type.ts: the six identity fields.
ProductCompositeKey == [IdentityFields -> IdStrings]

\* row.asin || '' : an empty asin stays the empty segment.
AsinOrEmpty(row) == IF row["asin"] = "" THEN "" ELSE row["asin"]

\* compositeKey(row): the six fields joined with "||" in a fixed order.
compositeKey(row) ==
    row["amazon_profile_name"] \o "||" \o row["hanna_org_name"] \o "||"
    \o AsinOrEmpty(row) \o "||" \o row["category_name"] \o "||"
    \o row["raas_plan"] \o "||" \o row["start_date"]

InitKeyVars ==
    /\ rowPair \in ProductCompositeKey \X ProductCompositeKey
    /\ keyPair = <<>>

IdleKeyVars ==
    /\ rowPair = <<[f \in IdentityFields |-> ""], [f \in IdentityFields |-> ""]>>
    /\ keyPair = <<>>

\* compositeKey is applied to both rows.
ComputeKeys ==
    /\ keyPair = <<>>
    /\ keyPair' = <<compositeKey(rowPair[1]), compositeKey(rowPair[2])>>
    /\ UNCHANGED rowPair

(***************************************************************************)
(* Filter -> query parameters                                              *)
(***************************************************************************)

\* JavaScript values, tagged so that values of different types compare.
Absent      == <<"absent">>        \* the object has no such key
Undefined   == <<"undefined">>
Null        == <<"null">>
Str(s)      == <<"str", s>>
Arr(a)      == <<"arr", a>>
Num(n)      == <<"num", n>>

\* Largest page number the operator navigates to.
MaxPage == 3

\* The ProductFilter keys carried by the checked filter objects: one
\* multi-valued, one single-valued, and the ad window.
FilterKeys == {"status", "marketplace", "ad_window"}
ParamKeys  == FilterKeys \cup {"page", "page_size"}

AdWindows == {"7d", "14d", "30d", "rt"}

FilterValues(k) ==
    IF k = "status"
        THEN {Absent, Undefined, Null, Arr(<<>>), Arr(<<"ONGOING">>)}
    ELSE IF k = "marketplace"
        THEN {Absent, Undefined, Null, Str(""), Str("US")}
    ELSE {Absent, Undefined} \cup {Str(w) : w \in AdWindows}

\* Every ProductFilter object over FilterKeys.
FilterObjects ==
    {F \in [FilterKeys -> UNION {FilterValues(k) : k \in FilterKeys}] :
        \A k \in FilterKeys : F[k] \in FilterValues(k)}

EmptyFilter == [k \in FilterKeys |-> Absent]

\* pagination = ref({ current: 1, pageSize: 20, total: 0 })
InitialPagination == [current |-> 1, pageSize |-> 20, total |-> 0]

\* queryParamsKeeps without the ad_window exclusion.
queryParamsKeepsAdWindow(k, value) ==
    /\ value # Absent
    /\ value # Undefined
    /\ value # Null
    /\ value # Str("")

\* The condition under which queryParams copies a filter entry.
queryParamsKeeps(k, value) ==
    /\ value # Absent
    /\ k # "ad_window"
    /\ value # Undefined
    /\ value # Null
    /\ value # Str("")

\* queryParams: page and page_size, then every filter entry that is kept.
queryParams(F, pag) ==
    [k \in ParamKeys |->
        IF k \in FilterKeys /\ queryParamsKeeps(k, F[k]) THEN F[k]
        ELSE IF k = "page" THEN Num(pag.current)
        ELSE IF k = "page_size" THEN Num(pag.pageSize)
        ELSE Absent]

\* useGetProductProgress.queryFn: const { ad_window, ...restParams } = params
restParams(params) ==
    [k \in DOMAIN params |-> IF k = "ad_window" THEN Absent ELSE params[k]]

\* The filterForm of filter-form.vue as its watchers leave it: a field is
\* undefined or holds a non-empty selection.
FilterForms ==
    {F \in FilterObjects :
        /\ F["status"] \in {Undefined, Arr(<<"ONGOING">>)}
        /\ F["marketplace"] \in {Undefined, Str("US")}
        /\ F["ad_window"] = Absent}

\* handleSearch: arrays are kept when non-empty, other values when they are
\* not undefined, null or ''.
handleSearch(form) ==
    [k \in FilterKeys |->
        IF form[k] = Absent THEN Absent
        ELSE IF form[k][1] = "arr"
            THEN (IF Len(form[k][2]) > 0 THEN form[k] ELSE Absent)
        ELSE IF form[k] # Undefined /\ form[k] # Null /\ form[k] # Str("")
            THEN form[k]
        ELSE Absent]

\* queryKey: ['productProgress', params]
productProgressKey(params) == <<"productProgress", params>>

\* The first fetch is made when the table is mounted.
InitParamVars ==
    /\ filters = EmptyFilter
    /\ pagination = InitialPagination
    /\ sentParams = restParams(queryParams(EmptyFilter, InitialPagination))
    /\ listRequests = 1
    /\ freshKeys =
        {productProgressKey(queryParams(EmptyFilter, InitialPagination))}

\* useQueryRefetches that fetches on every change of filters or page.
useQueryRefetchesAlways(oldKey, newKey, fresh) == TRUE

\* useQueryRefetches without the cache: every change of key fetches.
useQueryRefetchesIgnoresCache(oldKey, newKey, fresh) == newKey # oldKey

\* useQuery under a reactive key: the queryFn runs when the key has changed
\* and the cache holds no data for the new key younger than staleTime.
useQueryRefetches(oldKey, newKey, fresh) ==
    newKey # oldKey /\ newKey \notin fresh

\* useGetProductProgress(queryParams) when filters and pagination become F
\* and pag. Of the cached keys the model keeps the one just left and the
\* one just fetched; an older key counts as stale.
useGetProductProgress(F, pag) ==
    LET oldKey == productProgressKey(queryParams(filters, pagination))
        newKey == productProgressKey(queryParams(F, pag))
    IN  IF useQueryRefetches(oldKey, newKey, freshKeys)
        THEN /\ listRequests' = 1
             /\ sentParams' = restParams(queryParams(F, pag))
             /\ freshKeys' = {newKey} \cup (freshKeys \cap {oldKey})
        ELSE /\ listRequests' = 0
             /\ UNCHANGED <<sentParams, freshKeys>>

\* The parent passes a new filters object to the product table; the query
\* key follows queryParams.
SetFilters(F) ==
    /\ filters' = F
    /\ useGetProductProgress(F, pagination)
    /\ UNCHANGED pagination

FiltersPropChange == \E F \in FilterObjects : SetFilters(F)

\* Search in the filter form: handleSearch emits, handleFilterChange of the
\* dashboard page stores a copy that becomes the table's filters.
HandleFilterChange == \E form \in FilterForms : SetFilters(handleSearch(form))

\* handlePageChange(nextPage)
handlePageChange(nextPage) ==
    /\ pagination' = [pagination EXCEPT !.current = nextPage]
    /\ useGetProductProgress(filters, pagination')
    /\ UNCHANGED filters

\* The table is asked for a page: any page up to MaxPage.
HandlePageChange == \E nextPage \in 1..MaxPage : handlePageChange(nextPage)

\* totalPages: Math.max(1, Math.ceil(total / pageSize))
totalPages(pag) ==
    LET ceil == (pag.total + pag.pageSize - 1) \div pag.pageSize
    IN  IF ceil > 1 THEN ceil ELSE 1

\* The previous-page button, disabled when current <= 1.
PreviousPage ==
    /\ ~(pagination.current <= 1)
    /\ handlePageChange(pagination.current - 1)

\* The next-page button, disabled when current >= totalPages.
NextPage ==
    /\ ~(pagination.current >= totalPages(pagination))
    /\ handlePageChange(pagination.current + 1)

\* Totals a list response reports: an empty list, part of a page, and the
\* smallest totals that need 2 .. MaxPage pages.
Totals ==
    {0, 5} \cup {InitialPagination.pageSize * (p - 1) + 1 : p \in 2..MaxPage}

\* A list response arrives: the watcher of productProgressData.total stores
\* the new total.
TotalLoaded ==
    \E newTotal \in Totals :
        /\ pagination' = [pagination EXCEPT !.total = newTotal]
        /\ listRequests' = 0
        /\ UNCHANGED <<filters, sentParams, freshKeys>>

\* Values the ad-window select hands to handleAdWindowChange: the four
\* windows, the empty string and a window the page does not know.
AdWindowValues == AdWindows \cup {"", "90d"}

\* handleAdWindowChange(value) of the dashboard page: a valid window is
\* stored in filters, any other value removes the key.
handleAdWindowChange(F, value) ==
    IF value # "" /\ value \in {"7d", "14d", "30d", "rt"}
    THEN [F EXCEPT !["ad_window"] = Str(value)]
    ELSE [F EXCEPT !["ad_window"] = Absent]

HandleAdWindowChange ==
    \E value \in AdWindowValues :
        SetFilters(handleAdWindowChange(filters, value))

\* currentAdWindow: props.filters.ad_window || '30d'
currentAdWindow(F) ==
    IF F["ad_window"] \in {Absent, Undefined, Null, Str("")} THEN "30d"
    ELSE F["ad_window"][2]

\* The flat ad fields of a ProductProgress row, one set per window.
AdMetrics == {"ad_spend", "ad_sales", "ad_orders", "acos"}

\* A row whose sixteen ad fields all differ.
AdProduct ==
    [ad_spend_7d |-> 107, ad_sales_7d |-> 207, ad_orders_7d |-> 307,
     acos_7d |-> 407,
     ad_spend_14d |-> 114, ad_sales_14d |-> 214, ad_orders_14d |-> 314,
     acos_14d |-> 414,
     ad_spend_30d |-> 130, ad_sales_30d |-> 230, ad_orders_30d |-> 330,
     acos_30d |-> 430,
     ad_spend_rt |-> 100, ad_sales_rt |-> 200, ad_orders_rt |-> 300,
     acos_rt |-> 400]

\* getAdData(product) under the current ad window.
getAdData(product, adWindow) ==
    LET prefix == IF adWindow = "7d" THEN "7d"
                  ELSE IF adWindow = "14d" THEN "14d"
                  ELSE IF adWindow = "rt" THEN "rt"
                  ELSE "30d"
    IN  [metric \in AdMetrics |-> product[metric \o "_" \o prefix]]

\* The cached list data grow older than staleTime.
StaleTimePasses ==
    /\ freshKeys # {}
    /\ freshKeys' = {}
    /\ listRequests' = 0
    /\ UNCHANGED <<filters, pagination, sentParams>>

(***************************************************************************)
(* Axios wrapper                                                           *)
(***************************************************************************)

\* Requests that can be awaiting their response at the same time.
MaxRequests == 2

Tokens == {"t1", "t2"}
NoToken == ""
NoHeader == ""

SignInPath == "/auth/sign-in"
HomePath == "/raas/dashboard"

\* HTTP statuses a response carries.
Statuses == {200, 401, 403, 500}
\* An answer is a response with a status, or an error without a response.
Answers ==
    [kind : {"response"}, status : Statuses]
    \cup [kind : {"timeout", "network"}, status : {0}]

NoNavigation == <<>>
\* What an interceptor handed back: resolved or rejected, with the status
\* and kind of the error it rejected and the answer it had received.
NoOutcome == [kind |-> "none", status |-> 0, error |-> "none",
              answer |-> [kind |-> "none", status |-> 0]]

\* authStore.clearAuth(): the token is dropped.
clearAuth == token' = NoToken

\* requestInterceptor that sets Authorization whatever the token is.
requestInterceptorAlways(tok) == "Bearer " \o tok

\* The request interceptor: Authorization is set when the store has a token.
requestInterceptor(tok) ==
    IF tok # NoToken THEN "Bearer " \o tok ELSE NoHeader

\* signInNavigation that always redirects through window.location.
signInNavigationIgnoresRouter(router) ==
    <<[via |-> "location", to |-> SignInPath]>>

\* The navigation of the 401 branch: router push when a global router is
\* set, otherwise a location redirect.
signInNavigation(router) ==
    IF router THEN <<[via |-> "router", to |-> SignInPath]>>
    ELSE <<[via |-> "location", to |-> SignInPath]>>

\* isUnauthorized that takes every error response for a 401.
isUnauthorizedAnyStatus(answer) == answer.kind = "response"

\* The condition of the 401 branch: error.response?.status === 401
isUnauthorized(answer) ==
    answer.kind = "response" /\ answer.status = 401

RemoveAt(seq, i) == SubSeq(seq, 1, i - 1) \o SubSeq(seq, i + 1, Len(seq))

InitAxiosVars ==
    /\ token = NoToken
    /\ globalRouter = FALSE
    /\ inFlight = <<>>
    /\ location = SignInPath
    /\ navigations = NoNavigation
    /\ outcome = NoOutcome

\* setGlobalRouter(router)
SetGlobalRouter ==
    /\ ~globalRouter
    /\ globalRouter' = TRUE
    /\ navigations' = NoNavigation
    /\ outcome' = NoOutcome
    /\ UNCHANGED <<token, inFlight, location>>

\* Sign-in stores a token in the auth store and leaves the sign-in page.
SignIn ==
    \E t \in Tokens :
        /\ token = NoToken
        /\ token' = t
        /\ location' = HomePath
        /\ navigations' = NoNavigation
        /\ outcome' = NoOutcome
        /\ UNCHANGED <<globalRouter, inFlight>>

\* A request leaves through the request interceptor.
SendRequest ==
    /\ Len(inFlight) < MaxRequests
    /\ inFlight' = Append(inFlight, requestInterceptor(token))
    /\ navigations' = NoNavigation
    /\ outcome' = NoOutcome
    /\ UNCHANGED <<token, globalRouter, location>>

\* The response interceptor on a 2xx response: the response is returned.
ResponseFulfilled ==
    \E i \in 1..Len(inFlight) :
        /\ inFlight' = RemoveAt(inFlight, i)
        /\ navigations' = NoNavigation
        /\ outcome' = [kind |-> "resolved", status |-> 200, error |-> "none",
                       answer |-> [kind |-> "response", status |-> 200]]
        /\ UNCHANGED <<token, globalRouter, location>>

\* The response interceptor on an error: the 401 branch, then the error is
\* rejected to the caller.
ResponseRejected ==
    \E i \in 1..Len(inFlight), answer \in Answers :
        /\ answer.kind = "response" => answer.status # 200
        /\ inFlight' = RemoveAt(inFlight, i)
        /\ IF isUnauthorized(answer)
              THEN /\ clearAuth
                   /\ navigations' = signInNavigation(globalRouter)
                   /\ location' = SignInPath
              ELSE /\ navigations' = NoNavigation
                   /\ UNCHANGED <<token, location>>
        /\ outcome' = [kind |-> "rejected", status |-> answer.status,
                       error |-> answer.kind, answer |-> answer]
        /\ UNCHANGED globalRouter

(***************************************************************************)
(* Manual refresh cooldown                                                 *)
(***************************************************************************)

UPDATE_COOLDOWN_SECONDS == 60
MIN_UPDATE_INTERVAL == 30

\* Manual trigger requests that can be awaiting their response.
MaxInFlight == 2

\* Ages are counted in whole seconds up to MaxAge: timeSinceLastUpdate is
\* only compared with MIN_UPDATE_INTERVAL and UPDATE_COOLDOWN_SECONDS, so
\* every larger age behaves like MaxAge.
MaxAge == UPDATE_COOLDOWN_SECONDS
\* The value of timeSinceLastUpdate when there is no last_updated_at.
Infinity == MaxAge + 1

\* useTriggerDataUpdate.onSuccess invalidates these query keys.
TriggerKeys == {"lastUpdateTime", "productProgress"}

\* Age of the server's last_updated_at when a query result brings a new one.
ArrivalAges == {0, 45}

Min(a, b) == IF a < b THEN a ELSE b
Max(a, b) == IF a > b THEN a ELSE b

\* timeSinceLastUpdate, evaluated now: Infinity without last_updated_at,
\* else floor((Date.now() - lastUpdate) / 1000).
timeSinceLastUpdateNow(age) == age

\* timeSinceLastUpdate.value: a computed is evaluated again only after a
\* reactive dependency changed (Date.now() is none); otherwise the cached
\* value is returned.
timeSinceLastUpdate(age, cached, dirty) ==
    IF dirty THEN timeSinceLastUpdateNow(age) ELSE cached

isInCooldown(remaining) == remaining > 0

\* isUpdateDisabled without the minimum-interval condition.
isUpdateDisabledNoInterval(updating, triggered, remaining, tslu) ==
    IF updating \/ triggered THEN TRUE
    ELSE IF isInCooldown(remaining) THEN TRUE
    ELSE FALSE

\* isUpdateDisabled without the pending condition.
isUpdateDisabledNoPending(updating, triggered, remaining, tslu) ==
    IF isInCooldown(remaining) THEN TRUE
    ELSE IF tslu < MIN_UPDATE_INTERVAL THEN TRUE
    ELSE FALSE

\* isUpdateDisabled
isUpdateDisabled(updating, triggered, remaining, tslu) ==
    IF updating \/ triggered THEN TRUE
    ELSE IF isInCooldown(remaining) THEN TRUE
    ELSE IF tslu < MIN_UPDATE_INTERVAL THEN TRUE
    ELSE FALSE

\* isUpdateDisabled.value in the current state.
UpdateDisabled ==
    isUpdateDisabled(isUpdating, hasTriggeredUpdate, updateCooldownRemaining,
                     timeSinceLastUpdate(dataAge, tsluValue, tsluDirty))

\* updateButtonText: the label and, during the cooldown, the seconds shown.
updateButtonText(updating, triggered, remaining) ==
    IF triggered \/ updating THEN [label |-> "updating", seconds |-> 0]
    ELSE IF isInCooldown(remaining)
        THEN [label |-> "updateData", seconds |-> remaining]
    ELSE [label |-> "updateData", seconds |-> 0]

\* The render that follows a handler evaluates isUpdateDisabled again; it
\* reads timeSinceLastUpdate only when the earlier conditions let it through,
\* and that read refreshes a dirty cache.
RenderReadsTslu(updating, triggered, remaining) ==
    ~updating /\ ~triggered /\ ~isInCooldown(remaining)

Render(updating, triggered, remaining, age, cached, dirty) ==
    /\ tsluValue' = IF RenderReadsTslu(updating, triggered, remaining)
                        THEN timeSinceLastUpdate(age, cached, dirty)
                        ELSE cached
    /\ tsluDirty' = IF RenderReadsTslu(updating, triggered, remaining)
                        THEN FALSE
                        ELSE dirty

InitRefreshVars ==
    /\ dataAge = Infinity
    /\ tsluValue = Infinity
    /\ tsluDirty = FALSE
    /\ hasTriggeredUpdate = FALSE
    /\ isUpdating = FALSE
    /\ updateCooldownRemaining = 0
    /\ updateCooldownTimer = FALSE
    /\ cooldownIntervals = 0
    /\ triggerInFlight = 0
    /\ cooldownFinished = FALSE
    /\ toast = "none"
    /\ event = "mounted"
    /\ invalidated = {}

\* handleUpdateData when isUpdateDisabled holds: an info toast when the
\* remaining time lies strictly between 0 and the cooldown, nothing else.
HandleUpdateDataRejected ==
    /\ UpdateDisabled
    /\ LET tslu == timeSinceLastUpdate(dataAge, tsluValue, tsluDirty)
           remaining == Max(0, UPDATE_COOLDOWN_SECONDS - tslu)
       IN /\ toast' = IF remaining > 0 /\ remaining < UPDATE_COOLDOWN_SECONDS
                          THEN "info" ELSE "none"
          /\ tsluValue' = tslu
          /\ tsluDirty' = FALSE
    /\ event' = "refresh_rejected"
    /\ invalidated' = {}
    /\ UNCHANGED <<dataAge, hasTriggeredUpdate, isUpdating,
                   updateCooldownRemaining, updateCooldownTimer,
                   cooldownIntervals, triggerInFlight, cooldownFinished>>

\* handleUpdateData otherwise: hasTriggeredUpdate is set and the mutation
\* sends POST /progress/update.
HandleUpdateDataAccepted ==
    /\ ~UpdateDisabled
    /\ triggerInFlight < MaxInFlight
    /\ hasTriggeredUpdate' = TRUE
    /\ isUpdating' = TRUE
    /\ triggerInFlight' = triggerInFlight + 1
    /\ toast' = "none"
    /\ event' = "refresh_accepted"
    /\ invalidated' = {}
    /\ Render(TRUE, TRUE, updateCooldownRemaining, dataAge, tsluValue,
              tsluDirty)
    /\ UNCHANGED <<dataAge, updateCooldownRemaining, updateCooldownTimer,
                   cooldownIntervals, cooldownFinished>>

\* startUpdateCooldown that sets the counter without starting the interval.
startUpdateCooldownNoTimer ==
    /\ updateCooldownRemaining' = UPDATE_COOLDOWN_SECONDS
    /\ updateCooldownTimer' = updateCooldownTimer
    /\ cooldownIntervals' = cooldownIntervals

\* startUpdateCooldown: the counter is set, an interval still running is
\* cleared, and a new interval is started.
startUpdateCooldown ==
    /\ updateCooldownRemaining' = UPDATE_COOLDOWN_SECONDS
    /\ cooldownIntervals' = (IF updateCooldownTimer
                                 THEN cooldownIntervals - 1
                                 ELSE cooldownIntervals) + 1
    /\ updateCooldownTimer' = TRUE

\* The trigger request is answered with response.success true: the hook's
\* onSuccess invalidates, then onSuccess of the call starts the cooldown,
\* then onSettled.
TriggerSucceeded ==
    /\ triggerInFlight > 0
    /\ triggerInFlight' = triggerInFlight - 1
    /\ isUpdating' = FALSE
    /\ invalidated' = TriggerKeys
    /\ toast' = "success"
    /\ startUpdateCooldown
    /\ hasTriggeredUpdate' = FALSE
    /\ event' = "trigger_success"
    /\ Render(FALSE, FALSE, updateCooldownRemaining', dataAge, tsluValue,
              tsluDirty)
    /\ UNCHANGED <<dataAge, cooldownFinished>>

\* The trigger request is answered with response.success false: an error
\* toast, then onSettled.
TriggerUnsuccessful ==
    /\ triggerInFlight > 0
    /\ triggerInFlight' = triggerInFlight - 1
    /\ isUpdating' = FALSE
    /\ invalidated' = TriggerKeys
    /\ toast' = "error"
    /\ hasTriggeredUpdate' = FALSE
    /\ event' = "trigger_unsuccessful"
    /\ Render(FALSE, FALSE, updateCooldownRemaining, dataAge, tsluValue,
              tsluDirty)
    /\ UNCHANGED <<dataAge, updateCooldownRemaining, updateCooldownTimer,
                   cooldownIntervals, cooldownFinished>>

\* TriggerError that starts the cooldown as the success path does.
TriggerErrorStartsCooldown ==
    /\ triggerInFlight > 0
    /\ triggerInFlight' = triggerInFlight - 1
    /\ isUpdating' = FALSE
    /\ toast' = "error"
    /\ hasTriggeredUpdate' = FALSE
    /\ event' = "trigger_error"
    /\ invalidated' = {}
    /\ startUpdateCooldown
    /\ Render(FALSE, FALSE, updateCooldownRemaining', dataAge, tsluValue,
              tsluDirty)
    /\ UNCHANGED <<dataAge, cooldownFinished>>

\* The trigger request fails: onError, then onSettled.
TriggerError ==
    /\ triggerInFlight > 0
    /\ triggerInFlight' = triggerInFlight - 1
    /\ isUpdating' = FALSE
    /\ toast' = "error"
    /\ hasTriggeredUpdate' = FALSE
    /\ event' = "trigger_error"
    /\ invalidated' = {}
    /\ Render(FALSE, FALSE, updateCooldownRemaining, dataAge, tsluValue,
              tsluDirty)
    /\ UNCHANGED <<dataAge, updateCooldownRemaining, updateCooldownTimer,
                   cooldownIntervals, cooldownFinished>>

\* One second passes.  The interval callback of startUpdateCooldown, when a
\* timer is set, decrements the counter and clears the timer at zero.
Tick ==
    /\ dataAge' = IF dataAge = Infinity THEN Infinity
                  ELSE Min(dataAge + 1, MaxAge)
    /\ IF updateCooldownTimer
          THEN /\ updateCooldownRemaining' = updateCooldownRemaining - 1
               /\ updateCooldownTimer' = ~(updateCooldownRemaining' <= 0)
               /\ cooldownIntervals' = IF updateCooldownRemaining' <= 0
                                           THEN cooldownIntervals - 1
                                           ELSE cooldownIntervals
               /\ cooldownFinished' =
                      (cooldownFinished \/ updateCooldownRemaining' <= 0)
          ELSE UNCHANGED <<updateCooldownRemaining, updateCooldownTimer,
                           cooldownIntervals, cooldownFinished>>
    /\ toast' = "none"
    /\ event' = "tick"
    /\ invalidated' = {}
    /\ Render(isUpdating, hasTriggeredUpdate, updateCooldownRemaining',
              dataAge', tsluValue, tsluDirty)
    /\ UNCHANGED <<hasTriggeredUpdate, isUpdating, triggerInFlight>>

\* The last-update-time query brings a newer last_updated_at.
LastUpdateTimeLoaded ==
    \E age \in ArrivalAges :
        /\ age < dataAge
        /\ dataAge' = age
        /\ toast' = "none"
        /\ event' = "last_update_time"
        /\ invalidated' = {}
        /\ Render(isUpdating, hasTriggeredUpdate, updateCooldownRemaining,
                  age, tsluValue, TRUE)
        /\ UNCHANGED <<hasTriggeredUpdate, isUpdating,
                       updateCooldownRemaining, updateCooldownTimer,
                       cooldownIntervals, triggerInFlight, cooldownFinished>>

(***************************************************************************)
(* Create / update / cancel mutation cascade                               *)
(***************************************************************************)

\* Mutations that can be under way at the same time.
MaxMutations == 2

\* The delay of the setTimeout in onSuccess, in milliseconds and in ticks of
\* one second.
InvalidateDelayMs == 2000
InvalidateDelay == InvalidateDelayMs \div 1000

MutationKinds == {"create", "update", "cancel"}

\* The query keys invalidated by the timeout callback of onSuccess.
CascadeKeys == {"products", "productProgress", "lastUpdateTime"}

\* A mutation: pc is "idle", "pending" (POST/PUT sent), "triggering"
\* (onSuccess awaits POST /progress/update), "waiting" (timeout armed),
\* "invalidated", "failed" (the mutation request failed) or "trigger_failed"
\* (the awaited trigger request failed).
IdleMutation ==
    [kind |-> "create", pc |-> "idle", triggerIssued |-> FALSE,
     sinceTrigger |-> 0, timer |-> 0, keys |-> {}]

InitMutVars == mutations = [i \in 1..MaxMutations |-> IdleMutation]

\* mutate(): the mutationFn sends the request.
mutationFn(kind) == [IdleMutation EXCEPT !.kind = kind, !.pc = "pending"]

\* onSuccess, first statement: await axiosInstance.post('/progress/update')
onSuccessTrigger(m) ==
    [m EXCEPT !.pc = "triggering", !.triggerIssued = TRUE, !.sinceTrigger = 0]

\* onSuccessTimeout with no delay.
onSuccessTimeoutImmediate(m) ==
    [m EXCEPT !.pc = "waiting", !.timer = 0]

\* onSuccess, second statement: setTimeout(..., 2000)
onSuccessTimeout(m) ==
    [m EXCEPT !.pc = "waiting", !.timer = InvalidateDelay]

\* The timeout callback: three invalidateQueries calls.
timeoutCallback(m) ==
    [m EXCEPT !.pc = "invalidated", !.keys = CascadeKeys]

\* createProduct / updateProduct / cancelProduct is called.
Mutate ==
    \E i \in 1..MaxMutations, kind \in MutationKinds :
        /\ mutations[i].pc \in {"idle", "invalidated", "failed",
                                "trigger_failed"}
        /\ mutations' = [mutations EXCEPT ![i] = mutationFn(kind)]
        /\ invalidated' = {}

\* The mutation request succeeds and onSuccess starts.
MutationSucceeds ==
    \E i \in 1..MaxMutations :
        /\ mutations[i].pc = "pending"
        /\ mutations' = [mutations EXCEPT ![i] = onSuccessTrigger(@)]
        /\ invalidated' = {}

\* The mutation request fails: onSuccess does not run.
MutationFails ==
    \E i \in 1..MaxMutations :
        /\ mutations[i].pc = "pending"
        /\ mutations' = [mutations EXCEPT ![i].pc = "failed"]
        /\ invalidated' = {}

\* The awaited trigger request is answered and the timeout is armed.
CascadeTriggerAnswered ==
    \E i \in 1..MaxMutations :
        /\ mutations[i].pc = "triggering"
        /\ mutations' = [mutations EXCEPT ![i] = onSuccessTimeout(@)]
        /\ invalidated' = {}

\* The awaited trigger request fails: onSuccess throws before setTimeout.
CascadeTriggerFails ==
    \E i \in 1..MaxMutations :
        /\ mutations[i].pc = "triggering"
        /\ mutations' = [mutations EXCEPT ![i].pc = "trigger_failed"]
        /\ invalidated' = {}

\* One second passes for the armed timeouts and the issued triggers.
TimerTick ==
    /\ \E i \in 1..MaxMutations : mutations[i].pc \in {"triggering", "waiting"}
    /\ mutations' =
        [i \in 1..MaxMutations |->
            LET m == mutations[i] IN
            [m EXCEPT
                !.sinceTrigger = IF m.triggerIssued /\ m.pc # "invalidated"
                                    THEN Min(m.sinceTrigger + 1, InvalidateDelay)
                                    ELSE m.sinceTrigger,
                !.timer = IF m.pc = "waiting" THEN Max(m.timer - 1, 0)
                          ELSE m.timer]]
    /\ invalidated' = {}

\* An expired timeout runs its callback.
TimeoutFires ==
    \E i \in 1..MaxMutations :
        /\ mutations[i].pc = "waiting"
        /\ mutations[i].timer = 0
        /\ mutations' = [mutations EXCEPT ![i] = timeoutCallback(@)]
        /\ invalidated' = CascadeKeys

(***************************************************************************)
(* JavaScript numbers                                                      *)
(***************************************************************************)

\* A Number is an IEEE-754 binary64 value m * 2^e with a mantissa of
\* Precision bits, held as a little-endian sequence of limbs of LimbBits
\* bits; zero has the empty mantissa. The operations round to nearest, ties
\* to even, as the arithmetic of JavaScript does. The values of the model
\* stay far from the subnormal range and from overflow.
LimbBits == 20
LimbBase == 2^LimbBits
ChunkBits == 10
Precision == 53
GuardBits == 60

NumberZero == [m |-> <<>>, e |-> 0]

RECURSIVE Trim(_)
Trim(a) ==
    IF a # <<>> /\ a[Len(a)] = 0 THEN Trim(SubSeq(a, 1, Len(a) - 1)) ELSE a

\* a * k for a factor k below 2^ChunkBits.
MulSmall(a, k) ==
    LET RECURSIVE MulCarry(_, _)
        MulCarry(rest, c) ==
            IF rest = <<>>
            THEN IF c = 0 THEN <<>> ELSE <<c>>
            ELSE LET t == rest[1] * k + c
                 IN  <<t % LimbBase>>
                     \o MulCarry(Tail(rest), t \div LimbBase)
    IN  Trim(MulCarry(a, 0))

\* Quotient and remainder of a by a divisor k up to 2^ChunkBits.
RECURSIVE DivMod(_, _)
DivMod(a, k) ==
    IF a = <<>>
    THEN [q |-> <<>>, r |-> 0]
    ELSE LET hi == DivMod(Tail(a), k)
             t  == hi.r * LimbBase + a[1]
         IN  [q |-> <<t \div k>> \o hi.q, r |-> t % k]

RECURSIVE AddOne(_)
AddOne(a) ==
    IF a = <<>> THEN <<1>>
    ELSE IF a[1] + 1 < LimbBase THEN <<a[1] + 1>> \o Tail(a)
    ELSE <<0>> \o AddOne(Tail(a))

\* The number of bits of a mantissa without leading zero limbs.
BitLen(a) ==
    LET RECURSIVE Bits(_)
        Bits(n) == IF n = 0 THEN 0 ELSE 1 + Bits(n \div 2)
    IN  IF a = <<>> THEN 0 ELSE (Len(a) - 1) * LimbBits + Bits(a[Len(a)])

RECURSIVE ShiftLeft(_, _)
ShiftLeft(a, s) ==
    IF s = 0 THEN a
    ELSE LET c == IF s < ChunkBits THEN s ELSE ChunkBits
         IN  ShiftLeft(MulSmall(a, 2^c), s - c)

\* a shifted right by s bits; sticky tells whether a one was shifted out.
RECURSIVE ShiftRightSticky(_, _, _)
ShiftRightSticky(a, s, sticky) ==
    IF s = 0 THEN [q |-> a, sticky |-> sticky]
    ELSE LET c == IF s < ChunkBits THEN s ELSE ChunkBits
             d == DivMod(a, 2^c)
         IN  ShiftRightSticky(Trim(d.q), s - c, sticky \/ d.r # 0)

\* a / 2^s rounded to the nearest integer, ties to even.
RoundNearestEven(a, s, sticky) ==
    LET body == ShiftRightSticky(a, s - 1, sticky)
        last == DivMod(body.q, 2)
        q    == Trim(last.q)
        odd  == q # <<>> /\ q[1] % 2 = 1
    IN  IF last.r = 1 /\ (body.sticky \/ odd) THEN AddOne(q) ELSE q

\* The Number nearest to m * 2^e (plus a fraction below one unit of m when
\* sticky is set).
RoundToPrecision(m, e, sticky) ==
    LET n == BitLen(m)
    IN  IF n = 0 THEN NumberZero
        ELSE IF n <= Precision
        THEN [m |-> ShiftLeft(m, Precision - n), e |-> e - (Precision - n)]
        ELSE LET r == RoundNearestEven(m, n - Precision, sticky)
             IN  IF BitLen(r) > Precision
                 THEN [m |-> Trim(DivMod(r, 2).q),
                       e |-> e + (n - Precision) + 1]
                 ELSE [m |-> r, e |-> e + (n - Precision)]

\* The Number of a natural number below LimbBase.
NumberOf(n) == RoundToPrecision(Trim(<<n>>), 0, FALSE)

\* x * k in binary64.
NumberTimes(x, k) == RoundToPrecision(MulSmall(x.m, k), x.e, FALSE)

\* x / k in binary64.
NumberOver(x, k) ==
    LET d == DivMod(ShiftLeft(x.m, GuardBits), k)
    IN  RoundToPrecision(Trim(d.q), x.e - GuardBits, d.r # 0)

\* a + b on mantissas.
Plus(a, b) ==
    LET RECURSIVE PlusCarry(_, _, _)
        PlusCarry(u, v, c) ==
            IF u = <<>> /\ v = <<>>
            THEN IF c = 0 THEN <<>> ELSE <<c>>
            ELSE LET x == IF u = <<>> THEN 0 ELSE u[1]
                     y == IF v = <<>> THEN 0 ELSE v[1]
                     t == x + y + c
                 IN  <<t % LimbBase>>
                     \o PlusCarry(IF u = <<>> THEN u ELSE Tail(u),
                                  IF v = <<>> THEN v ELSE Tail(v),
                                  t \div LimbBase)
    IN  Trim(PlusCarry(a, b, 0))

\* a <= b on mantissas without leading zero limbs.
LessEq(a, b) ==
    LET RECURSIVE LessEqFrom(_)
        LessEqFrom(i) ==
            IF i = 0 THEN TRUE
            ELSE IF a[i] # b[i] THEN a[i] < b[i]
            ELSE LessEqFrom(i - 1)
    IN  IF Len(a) # Len(b) THEN Len(a) < Len(b) ELSE LessEqFrom(Len(a))

\* v is within half a unit of its last place of the real quotient x / k:
\* |k * v - x| <= k * 2^(v.e - 1), compared on a common exponent.
WithinHalfUlpOfQuotient(v, x, k) ==
    IF x.m = <<>> THEN v.m = <<>>
    ELSE /\ v.m # <<>>
         /\ LET e0 == IF v.e - 1 < x.e THEN v.e - 1 ELSE x.e
                scaled == ShiftLeft(MulSmall(v.m, k), v.e - e0)
                exact  == ShiftLeft(x.m, x.e - e0)
                half   == ShiftLeft(<<k>>, v.e - 1 - e0)
            IN  /\ LessEq(scaled, Plus(exact, half))
                /\ LessEq(exact, Plus(scaled, half))

\* The Number a decimal literal n / 10^d denotes (JSON.parse, Number()):
\* the integer part of n * 2^(2 * GuardBits) / 10^d, with a sticky flag for
\* the fraction dropped, rounded to Precision bits.
Decimal(n, d) ==
    LET RECURSIVE DivPowerOfTen(_, _, _)
        DivPowerOfTen(a, left, sticky) ==
            IF left = 0 THEN [q |-> a, sticky |-> sticky]
            ELSE LET step == DivMod(a, 10)
                 IN  DivPowerOfTen(Trim(step.q), left - 1,
                                   sticky \/ step.r # 0)
        q == DivPowerOfTen(ShiftLeft(Trim(<<n>>), 2 * GuardBits), d, FALSE)
    IN  RoundToPrecision(q.q, 0 - 2 * GuardBits, q.sticky)

(***************************************************************************)
(* Rows, selection and the add / edit form                                 *)
(***************************************************************************)

\* Rows of a rendered page.
MaxRows == 2
\* mutate() calls that can be unsettled at the same time.
MaxCalls == 2

\* A ProductProgress row: the identity fields, status ("" when the row has
\* none) and target_acos (a fraction or null).
ProductRow(plan, start, status, acos) ==
    [amazon_profile_name |-> "a", hanna_org_name |-> "a", asin |-> "a",
     category_name |-> "a", raas_plan |-> plan, start_date |-> start,
     status |-> status, target_acos |-> acos]

\* The rows the server answers with: a product, a cancelled row with the
\* same identity fields, and a second product without status.
Catalogue ==
    {ProductRow("a", "a", "ONGOING", Num(Decimal(25, 2))),
     ProductRow("a", "a", "CANCELLED", Null),
     ProductRow("|", "", "", Num(Decimal(7, 2)))}

\* A page holds up to MaxRows rows, no row twice.
Pages ==
    {page \in UNION {[1..n -> Catalogue] : n \in 0..MaxRows} :
        \A i, j \in 1..Len(page) : page[i] = page[j] => i = j}

\* Percentages typed into the target ACOS input: 25, 7 and 12.5
PercentInputs == {Num(NumberOf(25)), Num(NumberOf(7)), Num(Decimal(125, 1))}

\* target_acos of a row: null, absent (the field is optional), or a
\* fraction of [0, 2.5] as JSON.parse reads it: 0, 0.25, 0.07, 0.57, 1.13,
\* 2.5 and 0.112
StoredFractions ==
    {Null, Undefined, Num(NumberZero), Num(Decimal(25, 2)), Num(Decimal(7, 2)),
     Num(Decimal(57, 2)), Num(Decimal(113, 2)), Num(Decimal(25, 1)),
     Num(Decimal(112, 3))}

\* toCompositeKeyObj that hands the row on as it is.
toCompositeKeyObjWholeRow(row) == row

\* toCompositeKeyObj(row)
toCompositeKeyObj(row) == [f \in IdentityFields |-> row[f]]

\* flattenedRows: one entry per row, _key is the composite key followed by
\* "_" and the asin.
flattenedRows(data) ==
    [i \in 1..Len(data) |->
        [_key |-> compositeKey(data[i]) \o "_" \o AsinOrEmpty(data[i]),
         product |-> data[i]]]

RowKeys(data) == {flattenedRows(data)[i]._key : i \in 1..Len(data)}

\* The forEach of selectedProducts: a checked row is pushed unless its
\* composite key was seen.
RECURSIVE selectedFrom(_, _, _)
selectedFrom(rows, keys, seen) ==
    IF rows = <<>> THEN <<>>
    ELSE LET row == Head(rows)
             pk  == compositeKey(row.product)
         IN  IF row._key \in keys /\ pk \notin seen
             THEN <<row.product>>
                  \o selectedFrom(Tail(rows), keys, seen \cup {pk})
             ELSE selectedFrom(Tail(rows), keys, seen)

\* selectedProducts without the seen set.
selectedProductsNoDedup(data, keys) ==
    SelectSeq(data, LAMBDA p :
        compositeKey(p) \o "_" \o AsinOrEmpty(p) \in keys)

\* selectedProducts
selectedProducts(data, keys) == selectedFrom(flattenedRows(data), keys, {})

\* The form of handleAdd.
BlankForm ==
    [amazon_profile_name |-> "", hanna_org_name |-> "", asin |-> "",
     category_name |-> "", raas_plan |-> "", start_date |-> "",
     status |-> "", target_acos |-> Null]

\* toPercent that copies the fraction.
toPercentUnscaled(fraction) == fraction

\* handleEdit: row.target_acos != null ? row.target_acos * 100 : null
toPercent(fraction) ==
    IF fraction # Null /\ fraction # Undefined
    THEN Num(NumberTimes(fraction[2], 100))
    ELSE Null

\* toFraction that copies the percentage.
toFractionUnscaled(percent) == percent

\* toFraction with null treated as the number it coerces to: null / 100 is 0
toFractionCoercing(percent) ==
    Num(NumberOver(IF percent = Null \/ percent = Undefined
                   THEN NumberZero ELSE percent[2], 100))

\* handleModalOk: formData.target_acos != null ? formData.target_acos / 100
\* : null
toFraction(percent) ==
    IF percent # Null /\ percent # Undefined
    THEN Num(NumberOver(percent[2], 100))
    ELSE Null

\* The formData handleEdit(row) stores.
handleEdit(row) ==
    [amazon_profile_name |-> row.amazon_profile_name,
     hanna_org_name |-> row.hanna_org_name, asin |-> row.asin,
     category_name |-> row.category_name, raas_plan |-> row.raas_plan,
     start_date |-> row.start_date,
     status |-> IF row.status = "" THEN "ONGOING" ELSE row.status,
     target_acos |-> toPercent(row.target_acos)]

\* The payload of handleModalOk; status is sent only when editing.
modalPayload(form, editing) ==
    [amazon_profile_name |-> form.amazon_profile_name,
     hanna_org_name |-> form.hanna_org_name, asin |-> form.asin,
     category_name |-> form.category_name, raas_plan |-> form.raas_plan,
     start_date |-> form.start_date,
     status |-> IF editing THEN form.status ELSE "",
     target_acos |-> toFraction(form.target_acos)]

NoTableToast == [level |-> "none", message |-> ""]
TableToast(level, message) == [level |-> level, message |-> message]

\* handleEditSelected that edits the first selected product.
editSelectedBranchFirst(products) ==
    IF Len(products) = 0 THEN "return" ELSE "edit"

\* The branch handleEditSelected takes.
editSelectedBranch(products) ==
    IF Len(products) = 0 THEN "return"
    ELSE IF Len(products) > 1 THEN "warn"
    ELSE "edit"

\* The filter of handleCancelSelected without its condition.
notCancelledAll(products) == products

\* handleCancelSelected: selectedProducts.filter(p => p.status !==
\* 'CANCELLED')
notCancelled(products) ==
    SelectSeq(products, LAMBDA p : p.status # "CANCELLED")

\* A mutate() call: the mutation of raas.api.ts and whether the observer
\* still holds the callbacks passed to mutate(). An observer keeps the
\* callbacks of its latest mutate() call only.
NewCall(kind) == [m |-> mutationFn(kind), callbacks |-> TRUE]

\* mutate() on the observer of kind: earlier calls of that observer lose
\* their callbacks.
Supersede(cs, kind) ==
    [i \in 1..Len(cs) |->
        IF cs[i].m.kind = kind THEN [cs[i] EXCEPT !.callbacks = FALSE]
        ELSE cs[i]]

InitTableVars ==
    /\ tableData = <<>>
    /\ selectedRowKeys = {}
    /\ modalOpen = FALSE
    /\ isEditing = FALSE
    /\ formData = BlankForm
    /\ formOrigin = <<>>
    /\ calls = <<>>
    /\ issued = <<>>
    /\ tableToast = NoTableToast

\* The table shows one selected product with a stored target_acos.
InitFormVars ==
    /\ tableData \in {<<ProductRow("a", "a", "ONGOING", x)>> :
                        x \in StoredFractions}
    /\ selectedRowKeys = RowKeys(tableData)
    /\ modalOpen = FALSE
    /\ isEditing = FALSE
    /\ formData = BlankForm
    /\ formOrigin = <<>>
    /\ calls = <<>>
    /\ issued = <<>>
    /\ tableToast = NoTableToast

\* A page of productProgressData arrives: tableData follows it and the
\* watcher stores its total.
DataLoaded ==
    \E data \in Pages :
        /\ tableData' = data
        /\ pagination' = [pagination EXCEPT !.total = Len(data)]
        /\ issued' = <<>>
        /\ tableToast' = NoTableToast
        /\ UNCHANGED <<selectedRowKeys, modalOpen, isEditing, formData,
                       formOrigin, calls>>
        /\ UNCHANGED <<filters, sentParams, listRequests, freshKeys>>

\* toggleSelectAll(checked)
ToggleSelectAll ==
    \E checked \in BOOLEAN :
        /\ selectedRowKeys' = IF checked THEN RowKeys(tableData) ELSE {}
        /\ issued' = <<>>
        /\ tableToast' = NoTableToast
        /\ UNCHANGED <<tableData, modalOpen, isEditing, formData,
                       formOrigin, calls, paramVars>>

\* toggleSelectRow(row._key, checked) from the checkbox of a rendered row.
ToggleSelectRow ==
    \E rowKey \in RowKeys(tableData), checked \in BOOLEAN :
        /\ selectedRowKeys' = IF checked THEN selectedRowKeys \cup {rowKey}
                              ELSE selectedRowKeys \ {rowKey}
        /\ issued' = <<>>
        /\ tableToast' = NoTableToast
        /\ UNCHANGED <<tableData, modalOpen, isEditing, formData,
                       formOrigin, calls, paramVars>>

\* handleAdd
HandleAdd ==
    /\ isEditing' = FALSE
    /\ formData' = BlankForm
    /\ formOrigin' = <<>>
    /\ modalOpen' = TRUE
    /\ issued' = <<>>
    /\ tableToast' = NoTableToast
    /\ UNCHANGED <<tableData, selectedRowKeys, calls, paramVars>>

\* handleEditSelected
HandleEditSelected ==
    LET products == selectedProducts(tableData, selectedRowKeys)
        branch   == editSelectedBranch(products)
    IN  /\ IF branch = "edit"
           THEN /\ isEditing' = TRUE
                /\ formData' = handleEdit(products[1])
                /\ formOrigin' = <<products[1]>>
                /\ modalOpen' = TRUE
           ELSE UNCHANGED <<isEditing, formData, formOrigin, modalOpen>>
        /\ tableToast' = IF branch = "warn"
                         THEN TableToast("warning", "editSingleOnly")
                         ELSE NoTableToast
        /\ issued' = <<>>
        /\ UNCHANGED <<tableData, selectedRowKeys, calls, paramVars>>

\* handleCancelSelected: one cancelProduct call per product left by the
\* filter.
HandleCancelSelected ==
    LET products ==
            notCancelled(selectedProducts(tableData, selectedRowKeys))
        requests ==
            [i \in 1..Len(products) |->
                [kind |-> "cancel", payload |-> toCompositeKeyObj(products[i])]]
    IN  /\ Len(calls) + Len(products) <= MaxCalls
        /\ IF Len(products) = 0
           THEN /\ tableToast' = TableToast("warning", "allCancelled")
                /\ UNCHANGED calls
           ELSE /\ tableToast' = NoTableToast
                /\ calls' = Supersede(calls, "cancel")
                     \o [i \in 1..Len(products) |->
                            [NewCall("cancel") EXCEPT
                                !.callbacks = (i = Len(products))]]
        /\ issued' = requests
        /\ UNCHANGED <<tableData, selectedRowKeys, modalOpen, isEditing,
                       formData, formOrigin, paramVars>>

\* The target ACOS input of the form: '' and null become null, any other
\* value its Number.
SetTargetAcos ==
    \E v \in PercentInputs \cup {Null} :
        /\ modalOpen
        /\ formData' = [formData EXCEPT !.target_acos = v]
        /\ formOrigin' = <<>>
        /\ issued' = <<>>
        /\ tableToast' = NoTableToast
        /\ UNCHANGED <<tableData, selectedRowKeys, modalOpen, isEditing,
                       calls, paramVars>>

\* The dialog is closed: its cancel button or update:open.
CloseModal ==
    /\ modalOpen
    /\ modalOpen' = FALSE
    /\ issued' = <<>>
    /\ tableToast' = NoTableToast
    /\ UNCHANGED <<tableData, selectedRowKeys, isEditing, formData,
                   formOrigin, calls, paramVars>>

\* handleModalOk: the payload goes to updateProduct or createProduct.
HandleModalOk ==
    LET kind == IF isEditing THEN "update" ELSE "create"
    IN  /\ modalOpen
        /\ Len(calls) < MaxCalls
        /\ calls' = Append(Supersede(calls, kind), NewCall(kind))
        /\ issued' = <<[kind |-> kind,
                        payload |-> modalPayload(formData, isEditing)]>>
        /\ tableToast' = NoTableToast
        /\ UNCHANGED <<tableData, selectedRowKeys, modalOpen, isEditing,
                       formData, formOrigin, paramVars>>

\* The onError passed to mutate(): cancelFailed for a cancel, otherwise the
\* wording follows isEditing as it is when the callback runs.
mutateOnError(kind) ==
    /\ tableToast' =
        IF kind = "cancel" THEN TableToast("error", "cancelFailed")
        ELSE IF isEditing THEN TableToast("error", "updateFailed")
        ELSE TableToast("error", "createFailed")
    /\ UNCHANGED <<modalOpen>>

\* The onSuccess passed to mutate(): a toast, and the form's dialog is
\* closed.
mutateOnSuccess(kind) ==
    IF kind = "cancel"
    THEN /\ tableToast' = TableToast("success", "cancelledCount")
         /\ UNCHANGED modalOpen
    ELSE /\ tableToast' = IF isEditing
                          THEN TableToast("success", "updateSuccess")
                          ELSE TableToast("success", "createSuccess")
         /\ modalOpen' = FALSE

\* The request of a mutation fails: the hook has no onError, the callback
\* passed to mutate() runs if the observer still holds it.
CallRejected ==
    \E i \in 1..Len(calls) :
        /\ calls[i].m.pc = "pending"
        /\ calls' = RemoveAt(calls, i)
        /\ IF calls[i].callbacks THEN mutateOnError(calls[i].m.kind)
           ELSE /\ tableToast' = NoTableToast
                /\ UNCHANGED modalOpen
        /\ issued' = <<>>
        /\ UNCHANGED <<tableData, selectedRowKeys, isEditing, formData,
                       formOrigin, paramVars>>

\* The request of a mutation succeeds: onSuccess of the hook posts the
\* update trigger and awaits it.
CallAccepted ==
    \E i \in 1..Len(calls) :
        /\ calls[i].m.pc = "pending"
        /\ calls' = [calls EXCEPT ![i].m = onSuccessTrigger(@)]
        /\ issued' = <<>>
        /\ tableToast' = NoTableToast
        /\ UNCHANGED <<tableData, selectedRowKeys, modalOpen, isEditing,
                       formData, formOrigin, paramVars>>

\* The awaited trigger is answered: the hook arms its timeout and the
\* mutation is a success for the observer.
CallSettled ==
    \E i \in 1..Len(calls) :
        /\ calls[i].m.pc = "triggering"
        /\ calls' = RemoveAt(calls, i)
        /\ IF calls[i].callbacks THEN mutateOnSuccess(calls[i].m.kind)
           ELSE /\ tableToast' = NoTableToast
                /\ UNCHANGED modalOpen
        /\ issued' = <<>>
        /\ UNCHANGED <<tableData, selectedRowKeys, isEditing, formData,
                       formOrigin, paramVars>>

\* The awaited trigger fails: onSuccess of the hook throws and the mutation
\* is an error for the observer.
CallTriggerFailed ==
    \E i \in 1..Len(calls) :
        /\ calls[i].m.pc = "triggering"
        /\ calls' = RemoveAt(calls, i)
        /\ IF calls[i].callbacks THEN mutateOnError(calls[i].m.kind)
           ELSE /\ tableToast' = NoTableToast
                /\ UNCHANGED modalOpen
        /\ issued' = <<>>
        /\ UNCHANGED <<tableData, selectedRowKeys, isEditing, formData,
                       formOrigin, paramVars>>

(***************************************************************************)
(* Specifications                                                          *)
(***************************************************************************)

\* The manual refresh machine of the product table.
Init ==
    /\ InitRefreshVars
    /\ IdleKeyVars /\ InitParamVars /\ InitAxiosVars /\ InitMutVars /\ InitTableVars

Next ==
    \/ (HandleUpdateDataRejected /\ UNCHANGED <<keyVars, paramVars, axiosVars, mutVars, tableVars>>)
    \/ (HandleUpdateDataAccepted /\ UNCHANGED <<keyVars, paramVars, axiosVars, mutVars, tableVars>>)
    \/ (TriggerSucceeded /\ UNCHANGED <<keyVars, paramVars, axiosVars, mutVars, tableVars>>)
    \/ (TriggerUnsuccessful /\ UNCHANGED <<keyVars, paramVars, axiosVars, mutVars, tableVars>>)
    \/ (TriggerError /\ UNCHANGED <<keyVars, paramVars, axiosVars, mutVars, tableVars>>)
    \/ (Tick /\ UNCHANGED <<keyVars, paramVars, axiosVars, mutVars, tableVars>>)
    \/ (LastUpdateTimeLoaded /\ UNCHANGED <<keyVars, paramVars, axiosVars, mutVars, tableVars>>)

Spec == Init /\ [][Next]_vars

\* compositeKey on pairs of rows.
InitKey ==
    /\ InitKeyVars
    /\ InitParamVars /\ InitAxiosVars /\ InitRefreshVars /\ InitMutVars /\ InitTableVars

NextKey ==
    ComputeKeys /\ UNCHANGED <<paramVars, axiosVars, refreshVars, mutVars, cacheVars, tableVars>>

SpecKey == InitKey /\ [][NextKey]_vars

\* The product table's query parameters.
InitParams ==
    /\ InitParamVars
    /\ IdleKeyVars /\ InitAxiosVars /\ InitRefreshVars /\ InitMutVars /\ InitTableVars

NextParams ==
    \/ (FiltersPropChange /\ UNCHANGED <<keyVars, axiosVars, refreshVars, mutVars, cacheVars, tableVars>>)
    \/ (HandleFilterChange /\ UNCHANGED <<keyVars, axiosVars, refreshVars, mutVars, cacheVars, tableVars>>)
    \/ (HandlePageChange /\ UNCHANGED <<keyVars, axiosVars, refreshVars, mutVars, cacheVars, tableVars>>)
    \/ (HandleAdWindowChange /\ UNCHANGED <<keyVars, axiosVars, refreshVars, mutVars, cacheVars, tableVars>>)
    \/ (StaleTimePasses /\ UNCHANGED <<keyVars, axiosVars, refreshVars, mutVars, cacheVars, tableVars>>)

SpecParams == InitParams /\ [][NextParams]_vars

\* Paging through the list with the page buttons, under filter changes and
\* arriving list responses.
NextPaging ==
    \/ (HandleFilterChange /\ UNCHANGED <<keyVars, axiosVars, refreshVars, mutVars, cacheVars, tableVars>>)
    \/ (PreviousPage /\ UNCHANGED <<keyVars, axiosVars, refreshVars, mutVars, cacheVars, tableVars>>)
    \/ (NextPage /\ UNCHANGED <<keyVars, axiosVars, refreshVars, mutVars, cacheVars, tableVars>>)
    \/ (TotalLoaded /\ UNCHANGED <<keyVars, axiosVars, refreshVars, mutVars, cacheVars, tableVars>>)
    \/ (StaleTimePasses /\ UNCHANGED <<keyVars, axiosVars, refreshVars, mutVars, cacheVars, tableVars>>)

SpecPaging == InitParams /\ [][NextPaging]_vars

\* The axios wrapper.
InitAxios ==
    /\ InitAxiosVars
    /\ IdleKeyVars /\ InitParamVars /\ InitRefreshVars /\ InitMutVars /\ InitTableVars

NextAxios ==
    \/ (SetGlobalRouter /\ UNCHANGED <<keyVars, paramVars, refreshVars, mutVars, cacheVars, tableVars>>)
    \/ (SignIn /\ UNCHANGED <<keyVars, paramVars, refreshVars, mutVars, cacheVars, tableVars>>)
    \/ (SendRequest /\ UNCHANGED <<keyVars, paramVars, refreshVars, mutVars, cacheVars, tableVars>>)
    \/ (ResponseFulfilled /\ UNCHANGED <<keyVars, paramVars, refreshVars, mutVars, cacheVars, tableVars>>)
    \/ (ResponseRejected /\ UNCHANGED <<keyVars, paramVars, refreshVars, mutVars, cacheVars, tableVars>>)

SpecAxios == InitAxios /\ [][NextAxios]_vars

\* The mutation cascade.
InitCascade ==
    /\ InitMutVars
    /\ IdleKeyVars /\ InitParamVars /\ InitAxiosVars /\ InitRefreshVars /\ InitTableVars

NextCascade ==
    \/ (Mutate /\ UNCHANGED <<keyVars, paramVars, axiosVars, refreshVars, tableVars>>)
    \/ (MutationSucceeds /\ UNCHANGED <<keyVars, paramVars, axiosVars, refreshVars, tableVars>>)
    \/ (MutationFails /\ UNCHANGED <<keyVars, paramVars, axiosVars, refreshVars, tableVars>>)
    \/ (CascadeTriggerAnswered /\ UNCHANGED <<keyVars, paramVars, axiosVars, refreshVars, tableVars>>)
    \/ (CascadeTriggerFails /\ UNCHANGED <<keyVars, paramVars, axiosVars, refreshVars, tableVars>>)
    \/ (TimerTick /\ UNCHANGED <<keyVars, paramVars, axiosVars, refreshVars, tableVars>>)
    \/ (TimeoutFires /\ UNCHANGED <<keyVars, paramVars, axiosVars, refreshVars, tableVars>>)

SpecCascade == InitCascade /\ [][NextCascade]_vars

\* The cascade with time passing and every request answered: each pending
\* mutation request and each awaited trigger request of a call is answered
\* or fails, the clock advances, and an expired timeout runs its callback.
FairCascade ==
    LET rest == <<keyVars, paramVars, axiosVars, refreshVars, tableVars>>
    IN  /\ WF_vars(TimerTick /\ UNCHANGED rest)
        /\ \A i \in 1..MaxMutations :
            /\ WF_vars(/\ MutationSucceeds \/ MutationFails
                       /\ mutations[i].pc = "pending"
                       /\ mutations'[i].pc # "pending"
                       /\ UNCHANGED rest)
            /\ WF_vars(/\ CascadeTriggerAnswered \/ CascadeTriggerFails
                       /\ mutations[i].pc = "triggering"
                       /\ mutations'[i].pc # "triggering"
                       /\ UNCHANGED rest)
            /\ WF_vars(/\ TimeoutFires
                       /\ mutations[i].pc = "waiting"
                       /\ mutations'[i].pc = "invalidated"
                       /\ UNCHANGED rest)

SpecCascadeFair == SpecCascade /\ FairCascade

\* Rows, selection and the add / edit form of the product table.
InitTable ==
    /\ InitTableVars
    /\ IdleKeyVars /\ InitParamVars /\ InitAxiosVars /\ InitRefreshVars /\ InitMutVars

NextTable ==
    \/ (DataLoaded /\ UNCHANGED <<keyVars, axiosVars, refreshVars, mutVars, cacheVars>>)
    \/ (ToggleSelectAll /\ UNCHANGED <<keyVars, axiosVars, refreshVars, mutVars, cacheVars>>)
    \/ (ToggleSelectRow /\ UNCHANGED <<keyVars, axiosVars, refreshVars, mutVars, cacheVars>>)
    \/ (HandleAdd /\ UNCHANGED <<keyVars, axiosVars, refreshVars, mutVars, cacheVars>>)
    \/ (HandleEditSelected /\ UNCHANGED <<keyVars, axiosVars, refreshVars, mutVars, cacheVars>>)
    \/ (HandleCancelSelected /\ UNCHANGED <<keyVars, axiosVars, refreshVars, mutVars, cacheVars>>)
    \/ (CloseModal /\ UNCHANGED <<keyVars, axiosVars, refreshVars, mutVars, cacheVars>>)
    \/ (HandleModalOk /\ UNCHANGED <<keyVars, axiosVars, refreshVars, mutVars, cacheVars>>)
    \/ (CallRejected /\ UNCHANGED <<keyVars, axiosVars, refreshVars, mutVars, cacheVars>>)
    \/ (CallAccepted /\ UNCHANGED <<keyVars, axiosVars, refreshVars, mutVars, cacheVars>>)
    \/ (CallSettled /\ UNCHANGED <<keyVars, axiosVars, refreshVars, mutVars, cacheVars>>)
    \/ (CallTriggerFailed /\ UNCHANGED <<keyVars, axiosVars, refreshVars, mutVars, cacheVars>>)

SpecTable == InitTable /\ [][NextTable]_vars

\* The add / edit form on a product with a stored target_acos.
InitForm ==
    /\ InitFormVars
    /\ IdleKeyVars /\ InitParamVars /\ InitAxiosVars /\ InitRefreshVars /\ InitMutVars

NextForm ==
    \/ (HandleAdd /\ UNCHANGED <<keyVars, axiosVars, refreshVars, mutVars, cacheVars>>)
    \/ (HandleEditSelected /\ UNCHANGED <<keyVars, axiosVars, refreshVars, mutVars, cacheVars>>)
    \/ (SetTargetAcos /\ UNCHANGED <<keyVars, axiosVars, refreshVars, mutVars, cacheVars>>)
    \/ (CloseModal /\ UNCHANGED <<keyVars, axiosVars, refreshVars, mutVars, cacheVars>>)
    \/ (HandleModalOk /\ UNCHANGED <<keyVars, axiosVars, refreshVars, mutVars, cacheVars>>)
    \/ (CallRejected /\ UNCHANGED <<keyVars, axiosVars, refreshVars, mutVars, cacheVars>>)
    \/ (CallAccepted /\ UNCHANGED <<keyVars, axiosVars, refreshVars, mutVars, cacheVars>>)
    \/ (CallSettled /\ UNCHANGED <<keyVars, axiosVars, refreshVars, mutVars, cacheVars>>)
    \/ (CallTriggerFailed /\ UNCHANGED <<keyVars, axiosVars, refreshVars, mutVars, cacheVars>>)

SpecForm == InitForm /\ [][NextForm]_vars

\* The refresh button and the mutations of one product table, on one clock.
\* One second passes for the countdown and for the armed timeouts alike.
SecondPasses ==
    /\ Tick
    /\ IF \E i \in 1..MaxMutations :
              mutations[i].pc \in {"triggering", "waiting"}
          THEN TimerTick
          ELSE UNCHANGED mutVars

InitOperator ==
    /\ InitRefreshVars /\ InitMutVars
    /\ IdleKeyVars /\ InitParamVars /\ InitAxiosVars /\ InitTableVars

NextOperator ==
    \/ (HandleUpdateDataRejected /\ UNCHANGED <<keyVars, paramVars, axiosVars, mutVars, tableVars>>)
    \/ (HandleUpdateDataAccepted /\ UNCHANGED <<keyVars, paramVars, axiosVars, mutVars, tableVars>>)
    \/ (TriggerSucceeded /\ UNCHANGED <<keyVars, paramVars, axiosVars, mutVars, tableVars>>)
    \/ (TriggerUnsuccessful /\ UNCHANGED <<keyVars, paramVars, axiosVars, mutVars, tableVars>>)
    \/ (TriggerError /\ UNCHANGED <<keyVars, paramVars, axiosVars, mutVars, tableVars>>)
    \/ (SecondPasses /\ UNCHANGED <<keyVars, paramVars, axiosVars, tableVars>>)
    \/ (Mutate /\ UNCHANGED <<keyVars, paramVars, axiosVars, refreshVars, tableVars>>)
    \/ (MutationSucceeds /\ UNCHANGED <<keyVars, paramVars, axiosVars, refreshVars, tableVars>>)
    \/ (MutationFails /\ UNCHANGED <<keyVars, paramVars, axiosVars, refreshVars, tableVars>>)
    \/ (CascadeTriggerAnswered /\ UNCHANGED <<keyVars, paramVars, axiosVars, refreshVars, tableVars>>)
    \/ (CascadeTriggerFails /\ UNCHANGED <<keyVars, paramVars, axiosVars, refreshVars, tableVars>>)
    \/ (TimeoutFires /\ UNCHANGED <<keyVars, paramVars, axiosVars, refreshVars, tableVars>>)

SpecOperator == InitOperator /\ [][NextOperator]_vars

(***************************************************************************)
(* Claims                                                                  *)
(***************************************************************************)

\* C1: compositeKey is injective on the identity tuple: two rows that differ
\* in at least one of the six identity fields have different composite keys,
\* also when a field is empty or contains the '|' character.
C1_CompositeKeyInjective ==
    (keyPair # <<>> /\ rowPair[1] # rowPair[2]) => keyPair[1] # keyPair[2]

\* C2: for every filter object and pagination state, neither the parameters
\* derived by queryParams nor the parameters sent to GET /product-progress
\* contain an ad_window key.
C2_NoAdWindowParam ==
    /\ queryParams(filters, pagination)["ad_window"] = Absent
    /\ sentParams["ad_window"] = Absent

C2_Witness ==
    /\ filters["ad_window"] = Str("7d")
    /\ sentParams["marketplace"] = Str("US")
    /\ sentParams["page"] = Num(2)

\* C3: a filter field whose value is undefined, null, '' or [] is absent
\* from the parameters derived by queryParams; every other field except
\* ad_window is present unchanged, together with page and page_size.
C3_EmptyValuesAbsent ==
    LET params == queryParams(filters, pagination) IN
    /\ \A k \in FilterKeys :
        /\ filters[k] \in {Undefined, Null, Str(""), Arr(<<>>)}
              => params[k] = Absent
        /\ (k # "ad_window"
            /\ filters[k] \notin {Absent, Undefined, Null, Str(""), Arr(<<>>)})
              => params[k] = filters[k]
    /\ params["page"] = Num(pagination.current)
    /\ params["page_size"] = Num(pagination.pageSize)

\* C4: a request that receives a 401 response is rejected to its caller
\* after the auth state was cleared and exactly one navigation to
\* /auth/sign-in was made: a router push when a global router is set,
\* otherwise a location redirect.
C4_UnauthorizedTeardown ==
    outcome.status = 401 =>
        /\ outcome.kind = "rejected"
        /\ token = NoToken
        /\ Len(navigations) = 1
        /\ navigations[1].to = SignInPath
        /\ navigations[1].via = (IF globalRouter THEN "router" ELSE "location")
        /\ location = SignInPath

C4_Witness ==
    /\ outcome.kind = "rejected"
    /\ outcome.status = 401
    /\ globalRouter
    /\ navigations = <<[via |-> "router", to |-> SignInPath]>>
    /\ token = NoToken
    /\ Len(inFlight) = 1
    /\ inFlight[1] = "Bearer t1"

\* C5: with a last known update timestamp T, a refresh requested earlier
\* than T + 30 s issues no trigger request and leaves hasTriggeredUpdate and
\* the cooldown counter unchanged.
C5_MinIntervalGuard ==
    [][(/\ dataAge # Infinity
        /\ dataAge < MIN_UPDATE_INTERVAL
        /\ event' \in {"refresh_rejected", "refresh_accepted"})
        => (/\ event' = "refresh_rejected"
            /\ triggerInFlight' = triggerInFlight
            /\ hasTriggeredUpdate' = hasTriggeredUpdate
            /\ updateCooldownRemaining' = updateCooldownRemaining)]_vars

C5_Witness ==
    /\ event = "refresh_rejected"
    /\ dataAge = 10
    /\ ~hasTriggeredUpdate /\ ~isUpdating
    /\ updateCooldownRemaining = 0
    /\ triggerInFlight = 0

\* C6: a refresh issues a trigger request only when hasTriggeredUpdate is
\* false, the mutation is not pending and the cooldown counter is zero; at
\* most one manual trigger request is in flight at any time.
C6_SingleTriggerInFlight ==
    /\ [](triggerInFlight <= 1)
    /\ [][event' = "refresh_accepted" /\ triggerInFlight' # triggerInFlight
            => (/\ ~hasTriggeredUpdate
                /\ ~isUpdating
                /\ updateCooldownRemaining = 0
                /\ triggerInFlight' = triggerInFlight + 1)]_vars

C6_Witness ==
    /\ event = "refresh_rejected"
    /\ triggerInFlight = 1
    /\ hasTriggeredUpdate /\ isUpdating
    /\ cooldownFinished

\* C7: a successful trigger response sets the cooldown counter to 60,
\* starts the once-per-second countdown and clears hasTriggeredUpdate; while
\* the countdown runs the button label shows the remaining seconds.
C7_SuccessStartsCooldown ==
    /\ [](event = "trigger_success"
            => (/\ updateCooldownRemaining = UPDATE_COOLDOWN_SECONDS
                /\ updateCooldownTimer
                /\ ~hasTriggeredUpdate))
    /\ [](updateCooldownRemaining > 0
            => (/\ updateCooldownTimer
                /\ updateButtonText(isUpdating, hasTriggeredUpdate,
                                    updateCooldownRemaining)
                     = [label |-> "updateData",
                        seconds |-> updateCooldownRemaining]))
    /\ [][(updateCooldownRemaining > 0 /\ event' = "tick")
            => updateCooldownRemaining' = updateCooldownRemaining - 1]_vars

C7_Witness ==
    /\ event = "tick"
    /\ updateCooldownRemaining = UPDATE_COOLDOWN_SECONDS - 1
    /\ updateButtonText(isUpdating, hasTriggeredUpdate, updateCooldownRemaining)
         = [label |-> "updateData", seconds |-> 59]

\* C8: when the manual trigger fails (request error, or success flag false)
\* the cooldown counter stays 0, no countdown timer is started,
\* hasTriggeredUpdate becomes false and an error notification is shown.
C8_FailureReturnsToIdle ==
    event \in {"trigger_error", "trigger_unsuccessful"}
        => (/\ updateCooldownRemaining = 0
            /\ ~updateCooldownTimer
            /\ ~hasTriggeredUpdate
            /\ ~isUpdating
            /\ toast = "error")

C8_Witness ==
    /\ event = "trigger_error"
    /\ toast = "error"
    /\ cooldownFinished
    /\ updateCooldownRemaining = 0

\* C9: once a cooldown has run down to zero the machine is idle again: with
\* no trigger pending, no countdown running and the minimum interval since
\* the last known update elapsed, a refresh is accepted.
C9_IdleAfterCooldown ==
    (/\ cooldownFinished
     /\ ~updateCooldownTimer
     /\ updateCooldownRemaining = 0
     /\ ~hasTriggeredUpdate /\ ~isUpdating
     /\ dataAge >= MIN_UPDATE_INTERVAL)
        => ~UpdateDisabled

\* C10: after a create, update or cancel mutation succeeds the trigger
\* request is issued first; the invalidation comes at least 2 seconds after
\* it, never before it, and covers 'products', 'productProgress' and
\* 'lastUpdateTime' together.
C10_TriggerThenInvalidate ==
    \A i \in 1..MaxMutations :
        LET m == mutations[i] IN
        /\ m.pc \in {"triggering", "waiting", "invalidated", "trigger_failed"}
              => m.triggerIssued
        /\ m.pc \in {"idle", "pending", "failed"}
              => (~m.triggerIssued /\ m.keys = {})
        /\ m.keys # {}
              => (/\ m.triggerIssued
                  /\ m.sinceTrigger >= InvalidateDelay
                  /\ m.keys = CascadeKeys
                  /\ m.pc = "invalidated")
        /\ (m.pc = "invalidated") => (m.keys = CascadeKeys)

C10_Witness ==
    \E i \in 1..MaxMutations :
        /\ mutations[i].pc = "invalidated"
        /\ mutations[i].kind = "cancel"
        /\ mutations[i].keys = CascadeKeys
        /\ invalidated = CascadeKeys

\* C11: the payload handleModalOk passes to createProduct or updateProduct
\* has, for every non-null percentage p in the form, target_acos = p / 100:
\* the Number nearest to the hundredth of p (25 is sent as 0.25).
C11_PayloadIsHundredth ==
    \A i \in 1..Len(issued) :
        (issued[i].kind \in {"create", "update"}
         /\ formData.target_acos # Null)
        => /\ issued[i].payload.target_acos # Null
           /\ WithinHalfUlpOfQuotient(issued[i].payload.target_acos[2],
                                      formData.target_acos[2], 100)

\* A create form with 25 was submitted and 0.25 was sent.
C11_Witness ==
    /\ issued # <<>>
    /\ issued[1].kind = "create"
    /\ formData.target_acos = Num(NumberOf(25))
    /\ issued[1].payload.target_acos = Num(Decimal(25, 2))

\* C12: for every stored fraction x of [0, 2.5], loading x into the edit
\* form and submitting the form unchanged sends a target_acos equal to x.
C12_RoundTrip ==
    \A i \in 1..Len(issued) :
        (issued[i].kind = "update"
         /\ formOrigin # <<>>
         /\ formOrigin[1].target_acos \notin {Null, Undefined})
        => issued[i].payload.target_acos = formOrigin[1].target_acos

\* C13: for any rendered rows and any selection, selectedProducts holds at
\* most one entry per composite key, and checked rows with the same
\* identity fields (whatever their status) yield exactly one entry.
C13_DedupByCompositeKey ==
    LET products == selectedProducts(tableData, selectedRowKeys)
        rows     == flattenedRows(tableData)
    IN  /\ \A i, j \in 1..Len(products) :
              compositeKey(products[i]) = compositeKey(products[j]) => i = j
        /\ \A a, b \in 1..Len(rows) :
              (/\ a # b
               /\ rows[a]._key \in selectedRowKeys
               /\ rows[b]._key \in selectedRowKeys
               /\ toCompositeKeyObj(rows[a].product)
                    = toCompositeKeyObj(rows[b].product))
              => Cardinality({i \in 1..Len(products) :
                     toCompositeKeyObj(products[i])
                       = toCompositeKeyObj(rows[a].product)}) = 1

\* Two checked rows with the same identity fields and different status
\* gave one selected product.
C13_Witness ==
    /\ Len(tableData) = 2
    /\ toCompositeKeyObj(tableData[1]) = toCompositeKeyObj(tableData[2])
    /\ tableData[1].status # tableData[2].status
    /\ RowKeys(tableData) \subseteq selectedRowKeys
    /\ Len(selectedProducts(tableData, selectedRowKeys)) = 1

\* The number of distinct composite keys among the checked rendered rows.
DistinctSelected ==
    Cardinality({compositeKey(tableData[i]) :
        i \in {k \in 1..Len(tableData) :
                  flattenedRows(tableData)[k]._key \in selectedRowKeys}})

\* C14: handleEditSelected opens the edit form only when exactly one
\* distinct product (by composite key) is selected: with none selected
\* nothing happens, with more than one the modal is not opened, formData is
\* unchanged and a warning is shown.
C14_EditOnlySingle ==
    [][HandleEditSelected =>
        /\ DistinctSelected = 0 =>
              /\ UNCHANGED <<modalOpen, isEditing, formData>>
              /\ tableToast' = NoTableToast
        /\ DistinctSelected > 1 =>
              /\ UNCHANGED <<modalOpen, formData>>
              /\ tableToast'.level = "warning"
        /\ DistinctSelected = 1 =>
              /\ modalOpen' /\ isEditing'
              /\ \E i \in 1..Len(tableData) : formData' = handleEdit(tableData[i])
       ]_vars

\* Bulk edit was refused with a warning while two distinct products were
\* selected.
C14_Witness ==
    /\ DistinctSelected > 1
    /\ tableToast = TableToast("warning", "editSingleOnly")
    /\ ~modalOpen

\* The checked rendered rows that are the first of their composite key: the
\* selected distinct products.
FirstChecked ==
    {i \in 1..Len(tableData) :
        /\ flattenedRows(tableData)[i]._key \in selectedRowKeys
        /\ \A j \in 1..(i - 1) :
              flattenedRows(tableData)[j]._key \in selectedRowKeys
              => compositeKey(tableData[j]) # compositeKey(tableData[i])}

\* The key objects of the selected distinct products that are not CANCELLED.
CancelTargets ==
    {toCompositeKeyObj(tableData[i]) :
        i \in {k \in FirstChecked : tableData[k].status # "CANCELLED"}}

\* C15: handleCancelSelected issues exactly one cancel mutation for each
\* selected distinct product whose status is not CANCELLED and none for a
\* CANCELLED one; when every selected product is CANCELLED it issues no
\* request.
C15_OneCancelPerProduct ==
    [][HandleCancelSelected =>
        /\ \A target \in CancelTargets :
              Cardinality({i \in 1..Len(issued') :
                  issued'[i].payload = target}) = 1
        /\ \A i \in 1..Len(issued') :
              /\ issued'[i].kind = "cancel"
              /\ issued'[i].payload \in CancelTargets
        /\ Len(calls') = Len(calls) + Len(issued')
        /\ CancelTargets = {} => issued' = <<>> /\ calls' = calls
       ]_vars

\* A CANCELLED and a not cancelled product were selected and bulk cancel
\* issued the one request.
C15_Witness ==
    /\ Len(issued) = 1
    /\ issued[1].kind = "cancel"
    /\ Cardinality(FirstChecked) = 2
    /\ \E i \in FirstChecked : tableData[i].status = "CANCELLED"

\* C16: a request sent through the wrapped instance carries Authorization:
\* Bearer <token> if and only if the auth store holds a non-empty token when
\* it is sent; after a 401 has cleared the token, requests carry no
\* Authorization header until a token is stored again.
C16_BearerIffToken ==
    [][Len(inFlight') = Len(inFlight) + 1 =>
        LET header == inFlight'[Len(inFlight')]
        IN  /\ token # NoToken => header = "Bearer " \o token
            /\ token = NoToken => header = NoHeader
       ]_vars

\* A request went out with the token; a 401 then cleared the token and the
\* next request went out without a header.
C16_Witness ==
    /\ token = NoToken
    /\ inFlight = <<"Bearer t1", NoHeader>>

\* C17: for a response error whose status is not 401 (another HTTP status,
\* a timeout, no response) the response interceptor leaves the auth state
\* unchanged, navigates nowhere and rejects the error as it received it.
C17_OnlyUnauthorizedTearsDown ==
    [][(/\ Len(inFlight') = Len(inFlight) - 1
        /\ outcome'.kind = "rejected"
        /\ ~(outcome'.answer.kind = "response"
             /\ outcome'.answer.status = 401))
       => /\ token' = token
          /\ location' = location
          /\ navigations' = NoNavigation
          /\ outcome'.status = outcome'.answer.status
          /\ outcome'.error = outcome'.answer.kind
      ]_vars

\* A signed-in session received a 500 and is still signed in on its page.
C17_Witness ==
    /\ outcome.kind = "rejected"
    /\ outcome.answer = [kind |-> "response", status |-> 500]
    /\ token # NoToken
    /\ location = HomePath
    /\ navigations = NoNavigation

\* A POST /progress/update leaves the client in this step: the refresh
\* button's mutation sends one, or onSuccess of a create, update or cancel
\* mutation sends one.
TriggerCallIssued ==
    \/ triggerInFlight' > triggerInFlight
    \/ \E i \in 1..MaxMutations :
          /\ mutations[i].pc = "pending"
          /\ mutations'[i].pc = "triggering"
          /\ mutations'[i].triggerIssued

\* C18: while the refresh cooldown is running (counter > 0) no
\* POST /progress/update is issued, whatever the operator does in the
\* product table.
C18_NoTriggerDuringCooldown ==
    [][updateCooldownRemaining > 0 => ~TriggerCallIssued]_vars

\* C19: handleAdWindowChange with '7d', '14d', '30d', 'rt' or an invalid
\* value leaves the derived query parameters and the product-progress query
\* key unchanged and sends no list request; afterwards getAdData returns
\* the metric set of the chosen window (of 30d after an invalid value).
C19_AdWindowIsProjection ==
    [][\A value \in AdWindowValues :
        (/\ filters' = handleAdWindowChange(filters, value)
         /\ pagination' = pagination)
        => /\ queryParams(filters', pagination')
                = queryParams(filters, pagination)
           /\ productProgressKey(queryParams(filters', pagination'))
                = productProgressKey(queryParams(filters, pagination))
           /\ listRequests' = 0
           /\ sentParams' = sentParams
           /\ getAdData(AdProduct, currentAdWindow(filters'))
                = [metric \in AdMetrics |->
                      AdProduct[metric \o "_" \o
                          (IF value \in AdWindows THEN value ELSE "30d")]]
      ]_vars

\* The window was switched to 7d under a status filter on page 2: no
\* request went out and the rows show the 7d metrics.
C19_Witness ==
    /\ filters["ad_window"] = Str("7d")
    /\ filters["status"] = Arr(<<"ONGOING">>)
    /\ pagination.current = 2
    /\ listRequests = 0
    /\ freshKeys = {}
    /\ sentParams = restParams(queryParams(filters, pagination))
    /\ getAdData(AdProduct, currentAdWindow(filters)).acos = 407

\* C20: when the request of a create, update or cancel mutation fails, the
\* rendered rows, the selection and the pagination are unchanged, no
\* request, no update trigger and no cache invalidation is issued, the
\* modal and its form data stay as they are, and an error notification is
\* shown.
C20_FailureLeavesDataAlone ==
    [][CallRejected =>
        /\ tableData' = tableData
        /\ selectedRowKeys' = selectedRowKeys
        /\ pagination' = pagination
        /\ issued' = <<>>
        /\ \A i \in 1..Len(calls') : calls'[i].m.triggerIssued
                => \E j \in 1..Len(calls) : calls[j].m.triggerIssued
        /\ invalidated' = {}
        /\ modalOpen' = modalOpen
        /\ formData' = formData
        /\ tableToast'.level = "error"
      ]_vars

\* v is within half a unit of its last place of the real product x * k:
\* |v - k * x| <= 2^(v.e - 1), compared on a common exponent.
WithinHalfUlpOfProduct(v, x, k) ==
    IF x.m = <<>> THEN v.m = <<>>
    ELSE /\ v.m # <<>>
         /\ LET e0 == IF v.e - 1 < x.e THEN v.e - 1 ELSE x.e
                scaled == ShiftLeft(v.m, v.e - e0)
                exact  == ShiftLeft(MulSmall(x.m, k), x.e - e0)
                half   == ShiftLeft(<<1>>, v.e - 1 - e0)
            IN  /\ LessEq(scaled, Plus(exact, half))
                /\ LessEq(exact, Plus(scaled, half))

\* C21: the percentage conversion is applied once in each direction.
\* Opening the edit form stores the row's target_acos times 100 (the
\* Number nearest to that product); a submission sends the form value
\* divided by 100 and leaves the form value as it was, and so does a failed
\* submission, so that submitting again sends the same target_acos.
C21_ConvertedOnce ==
    [][/\ (HandleEditSelected /\ formOrigin' # <<>>) =>
            LET x == formOrigin'[1].target_acos
                p == formData'.target_acos
            IN  IF x \in {Null, Undefined} THEN p = Null
                ELSE /\ p # Null
                     /\ WithinHalfUlpOfProduct(p[2], x[2], 100)
       /\ HandleModalOk =>
            /\ formData' = formData
            /\ Len(issued') = 1
            /\ LET sent == issued'[1].payload.target_acos
                   p    == formData.target_acos
               IN  IF p = Null THEN sent = Null
                   ELSE /\ sent # Null
                        /\ WithinHalfUlpOfQuotient(sent[2], p[2], 100)
       /\ (CallRejected \/ CallTriggerFailed) => formData' = formData
      ]_vars

\* The update of a row stored with 0.25 has failed: the dialog is still open
\* and the form still holds 25, ready to be submitted again.
C21_Witness ==
    /\ tableToast = TableToast("error", "updateFailed")
    /\ modalOpen
    /\ formOrigin # <<>>
    /\ formOrigin[1].target_acos = Num(Decimal(25, 2))
    /\ formData.target_acos = Num(NumberOf(25))
    /\ toFraction(formData.target_acos) = Num(Decimal(25, 2))

\* C22: a null target_acos is not converted. Opening the edit form on a row
\* whose target_acos is null or absent puts null in the form, and submitting
\* a form whose target_acos is null sends null, never 0.
C22_NullPassesThrough ==
    [][/\ (/\ HandleEditSelected
           /\ formOrigin' # <<>>
           /\ formOrigin'[1].target_acos \in {Null, Undefined})
          => formData'.target_acos = Null
       /\ (HandleModalOk /\ formData.target_acos = Null)
          => /\ Len(issued') = 1
             /\ issued'[1].payload.target_acos = Null
             /\ issued'[1].payload.target_acos # Num(NumberZero)
      ]_vars

\* A row without target_acos was opened in the edit form and submitted as
\* it was: the payload carries null.
C22_Witness ==
    /\ issued # <<>>
    /\ issued[1].kind = "update"
    /\ formOrigin # <<>>
    /\ formOrigin[1].target_acos = Undefined
    /\ formData.target_acos = Null
    /\ issued[1].payload.target_acos = Null

C25_SuccessEventuallyInvalidates ==
    \A i \in 1..MaxMutations :
        (mutations[i].pc = "triggering")
            ~> (mutations[i].pc = "invalidated"
                /\ mutations[i].keys = CascadeKeys)

\* C26: the outcome handling of a form submission matches the submission.
\* No OK click issues a request while a create or update request of the
\* form is in flight; and when such a request completes, the success or
\* error notification has the wording of the submission's kind, also when
\* the operator has closed the modal and opened the other form meanwhile.
C26_OutcomeMatchesSubmission ==
    [][/\ HandleModalOk =>
            \A i \in 1..Len(calls) : calls[i].m.kind = "cancel"
       /\ \A i \in 1..Len(calls) :
            (/\ calls' = RemoveAt(calls, i)
             /\ calls[i].callbacks
             /\ calls[i].m.kind # "cancel")
            => /\ CallSettled =>
                    tableToast'.message =
                        (IF calls[i].m.kind = "update" THEN "updateSuccess"
                         ELSE "createSuccess")
               /\ (CallRejected \/ CallTriggerFailed) =>
                    tableToast'.message =
                        (IF calls[i].m.kind = "update" THEN "updateFailed"
                         ELSE "createFailed")
      ]_vars

\* C27: in every reachable state the selected row keys are keys of rendered
\* rows, so that hasSelection (a non-empty key set) implies a non-empty
\* selectedProducts.
C27_SelectionWithinRenderedRows ==
    /\ selectedRowKeys \subseteq RowKeys(tableData)
    /\ selectedRowKeys # {}
        => selectedProducts(tableData, selectedRowKeys) # <<>>

\* C28: in every reachable state the current page lies within the valid
\* range, 1 <= pagination.current <= totalPages.
C28_PageWithinRange ==
    /\ 1 <= pagination.current
    /\ pagination.current <= totalPages(pagination)

\* C29: the selected ad window survives filter changes. A Search or Reset
\* of the filter form (handleFilterChange) leaves the ad window shown by the
\* dashboard selector and used by the table's metric columns unchanged.
C29_AdWindowSurvivesFilterChange ==
    [][HandleFilterChange =>
        /\ currentAdWindow(filters') = currentAdWindow(filters)
        /\ getAdData(AdProduct, currentAdWindow(filters'))
             = getAdData(AdProduct, currentAdWindow(filters))
      ]_vars

\* C30: in every reachable state the cooldown counter lies between 0 and
\* 60, at most one countdown interval timer is live, and a timer is live
\* exactly when the counter is above 0.
C30_CooldownCounter ==
    /\ 0 <= updateCooldownRemaining
    /\ updateCooldownRemaining <= UPDATE_COOLDOWN_SECONDS
    /\ cooldownIntervals <= 1
    /\ cooldownIntervals = (IF updateCooldownTimer THEN 1 ELSE 0)
    /\ (cooldownIntervals > 0) <=> (updateCooldownRemaining > 0)

C30_Witness ==
    /\ cooldownFinished
    /\ event = "tick"
    /\ cooldownIntervals = 1
    /\ updateCooldownRemaining = 1

====
